---- MODULE Spec2Model ----
(***************************************************************************)
(* kiss-headers: the ordered attribute index (models.Attributes), the      *)
(* Header built on it (models.Header) and the helpers of utils.py they     *)
(* call.                                                                   *)
(*                                                                         *)
(* A Python str is a sequence of one-character strings; an Optional is     *)
(* the empty tuple (None) or a one-element tuple (a value).                *)
(***************************************************************************)
EXTENDS Integers, Sequences, FiniteSets, TLC

\* ---------------------------------------------------------------- bounds

\* insert is explored while the index is shorter than this
MaxLen == 3
\* number of tokens handed to Attributes(...) at construction
MaxTokens == 2
\* number of calls made on one Header
MaxCalls == 2

\* the longest name and the longest content Header(...) is given
MaxName == 1

MaxContent == 5

\* the longest Headers collection built at the start, and the number of calls
\* made on it
MaxHeaders == 2

MaxHsCalls == 1

\* the number of pieces of a content given to header_content_split
MaxPieces == 4

\* ---------------------------------------------------------------- optionals

None == <<>>

Some(x) == <<x>>

\* ---------------------------------------------------------------- sequences

\* list.index(x), 1-based; 0 when x is absent (Python raises ValueError)
IndexOf(seq, x) ==
  IF \E i \in DOMAIN seq : seq[i] = x
  THEN CHOOSE i \in DOMAIN seq : seq[i] = x /\ \A j \in 1..(i - 1) : seq[j] # x
  ELSE 0

\* list.pop(pos) seen as the remaining list, pos 1-based
RemoveAt(seq, pos) ==
  [i \in 1..(Len(seq) - 1) |-> IF i < pos THEN seq[i] ELSE seq[i + 1]]

\* max(list) of a non-empty list of integers
SeqMax(seq) ==
  CHOOSE m \in {seq[i] : i \in DOMAIN seq} : \A j \in DOMAIN seq : seq[j] <= m

RECURSIVE Concat(_)
\* the concatenation of a sequence of sequences
Concat(seqs) ==
  IF seqs = <<>> THEN <<>> ELSE Head(seqs) \o Concat(Tail(seqs))

\* ---------------------------------------------------------------- utils.py

\* str.lower() and the replacement of '-' by '_', one character
NormChar(c) ==
  CASE c = "A" -> "a"
    [] c = "B" -> "b"
    [] c = "-" -> "_"
    [] c = "X" -> "x"
    [] c = "V" -> "v"
    [] c = "S" -> "s"
    [] c = "M" -> "m"
    [] OTHER -> c

normalize_str(string) ==
  [i \in DOMAIN string |-> NormChar(string[i])]

normalize_list(strings) ==
  [i \in DOMAIN strings |-> normalize_str(strings[i])]

RECURSIVE lstrip(_)
lstrip(string) ==
  IF string # <<>> /\ Head(string) = " " THEN lstrip(Tail(string)) ELSE string

RECURSIVE rstrip(_)
rstrip(string) ==
  IF string # <<>> /\ string[Len(string)] = " "
  THEN rstrip(SubSeq(string, 1, Len(string) - 1))
  ELSE string

unquote(string) ==
  IF \/ /\ Len(string) >= 2
        /\ Head(string) = "\""
        /\ string[Len(string)] = "\""
     \/ /\ string # <<>>
        /\ Head(string) = "'"
        /\ string[Len(string)] = "'"
  THEN SubSeq(string, 2, Len(string) - 1)
  ELSE string

RECURSIVE unescape_double_quote(_)
\* content.replace('\\"', '"')
unescape_double_quote(content) ==
  IF content = <<>> THEN <<>>
  ELSE IF Len(content) >= 2 /\ content[1] = "\\" /\ content[2] = "\""
       THEN <<"\"">> \o unescape_double_quote(SubSeq(content, 3, Len(content)))
       ELSE <<Head(content)>> \o unescape_double_quote(Tail(content))

escape_double_quote(content) ==
  LET u == unescape_double_quote(content)
  IN Concat([i \in DOMAIN u |-> IF u[i] = "\"" THEN <<"\\", "\"">> ELSE <<u[i]>>])

\* ---------------------------------------------------------------- Attributes

\* CaseInsensitiveDict lookup: the place of key in the ordered store, 0 when absent
BagFind(bag, key) ==
  IF \E i \in DOMAIN bag : normalize_str(bag[i].key) = normalize_str(key)
  THEN CHOOSE i \in DOMAIN bag : normalize_str(bag[i].key) = normalize_str(key)
  ELSE 0

\* every position stored in the bag
Positions(bag) ==
  UNION {{bag[a].idxs[i] : i \in DOMAIN bag[a].idxs} : a \in DOMAIN bag}

\* Attributes.last_index, None on an empty bag
last_index(bag) ==
  IF bag = <<>> THEN None
  ELSE LET maxes == {SeqMax(bag[a].idxs) : a \in DOMAIN bag} \cup {0}
       IN Some(CHOOSE m \in maxes : \A x \in maxes : x <= m)

Attributes_len(bag) ==
  IF last_index(bag) = None THEN 0 ELSE last_index(bag)[1] + 1

\* Attributes.__getitem__(int): None stands for IndexError
Attributes_getitem_int(bag, item) ==
  IF \E a \in DOMAIN bag : IndexOf(bag[a].idxs, item) # 0
  THEN LET a == CHOOSE x \in DOMAIN bag :
                  /\ IndexOf(bag[x].idxs, item) # 0
                  /\ \A y \in 1..(x - 1) : IndexOf(bag[y].idxs, item) = 0
       IN Some([key |-> bag[a].key, value |-> bag[a].vals[IndexOf(bag[a].idxs, item)]])
  ELSE None

\* the values of one entry that are not None, in list order
ValuedOf(vals) ==
  SelectSeq(vals, LAMBDA v : v # None)

\* Attributes.__getitem__(str): err is "KeyError" when the key is not in the
\* bag and "IndexError" when it has no value; many tells a list from a str
Attributes_getitem_str(bag, item) ==
  LET k == BagFind(bag, item)
  IN IF k = 0 THEN [err |-> "KeyError", many |-> FALSE, values |-> <<>>]
     ELSE LET values == ValuedOf(bag[k].vals)
          IN IF values = <<>>
             THEN [err |-> "IndexError", many |-> FALSE, values |-> <<>>]
             ELSE [err |-> "", many |-> Len(values) > 1,
                   values |-> [i \in DOMAIN values |-> values[i][1]]]

\* ShiftUp with a strict comparison: the member at index itself stays in place
ShiftUp_strict(idxs, index) ==
  [i \in DOMAIN idxs |-> IF idxs[i] > index THEN idxs[i] + 1 ELSE idxs[i]]

\* the loop of insert that makes room at index
ShiftUp(idxs, index) ==
  [i \in DOMAIN idxs |-> IF idxs[i] >= index THEN idxs[i] + 1 ELSE idxs[i]]

\* the position insert gives to the new member
ToBeInserted(bag, index) ==
  IF index # None THEN index[1] ELSE Attributes_len(bag)

Attributes_insert(bag, key, value, index) ==
  IF index # None /\ index[1] < 0 /\ Attributes_len(bag) = 0
  THEN [err |-> "ZeroDivisionError", bag |-> bag]
  ELSE LET idx == IF index # None /\ index[1] < 0
                  THEN Some(index[1] % Attributes_len(bag))
                  ELSE index
           to_be_inserted == ToBeInserted(bag, idx)
           shifted == IF idx # None
                      THEN [a \in DOMAIN bag |->
                              [bag[a] EXCEPT !.idxs = ShiftUp(@, idx[1])]]
                      ELSE bag
           k == BagFind(shifted, key)
       IN [err |-> "",
           bag |-> IF k = 0
                   THEN Append(shifted, [key |-> key, vals |-> <<value>>,
                                         idxs |-> <<to_be_inserted>>])
                   ELSE [shifted EXCEPT ![k].vals = Append(@, value),
                                        ![k].idxs = Append(@, to_be_inserted)]]

\* the positions remove(key, with_value=...) frees, in the order of the entry
FreedByValue(entry, with_value) ==
  LET sel == SelectSeq([i \in DOMAIN entry.idxs |-> i],
                       LAMBDA i : IF with_value[1]
                                  THEN entry.vals[i] # None
                                  ELSE entry.vals[i] = None)
  IN [j \in DOMAIN sel |-> entry.idxs[sel[j]]]

\* one entry without the occurrences at the freed positions
DropFreed(entry, freed) ==
  LET keep == SelectSeq([i \in DOMAIN entry.idxs |-> i],
                        LAMBDA i : IndexOf(freed, entry.idxs[i]) = 0)
  IN [entry EXCEPT !.vals = [j \in DOMAIN keep |-> entry.vals[keep[j]]],
                   !.idxs = [j \in DOMAIN keep |-> entry.idxs[keep[j]]]]

\* ShiftDown without its second branch: only the direct successor of a freed
\* position moves down
ShiftDown_neighbour(idxs, freed_indexes) ==
  [i \in DOMAIN idxs |->
     IF IndexOf(freed_indexes, idxs[i] - 1) # 0 THEN idxs[i] - 1 ELSE idxs[i]]

\* the closing loop of remove: the renumbering of one entry's positions
ShiftDown(idxs, freed_indexes) ==
  [i \in DOMAIN idxs |->
     IF IndexOf(freed_indexes, idxs[i] - 1) # 0 THEN idxs[i] - 1
     ELSE IF idxs[i] > SeqMax(freed_indexes) THEN idxs[i] - 1
     ELSE idxs[i]]

\* the tail of remove: drop the key when it is empty, then renumber
RemoveFinish(bag, k, freed_indexes) ==
  LET pruned == IF bag[k].vals = <<>> THEN RemoveAt(bag, k) ELSE bag
  IN IF pruned # <<>> /\ freed_indexes = <<>>
     THEN [err |-> "ValueError", bag |-> pruned]
     ELSE [err |-> "",
           bag |-> [a \in DOMAIN pruned |->
                      [pruned[a] EXCEPT !.idxs = ShiftDown(@, freed_indexes)]]]

Attributes_remove(bag, key, index, with_value) ==
  LET k == BagFind(bag, key)
  IN IF k = 0 THEN [err |-> "", bag |-> bag]
     ELSE IF index # None
     THEN IF with_value # None THEN [err |-> "ValueError", bag |-> bag]
          ELSE LET idx == IF index[1] >= 0 THEN index[1]
                          ELSE index[1] % Attributes_len(bag)
                   pos == IndexOf(bag[k].idxs, idx)
               IN IF pos = 0 THEN [err |-> "ValueError", bag |-> bag]
                  ELSE RemoveFinish(
                         [bag EXCEPT ![k].vals = RemoveAt(@, pos),
                                     ![k].idxs = RemoveAt(@, pos)],
                         k, <<idx>>)
     ELSE IF with_value # None
     THEN LET freed == FreedByValue(bag[k], with_value)
          IN RemoveFinish([bag EXCEPT ![k] = DropFreed(@, freed)], k, freed)
     ELSE RemoveFinish([bag EXCEPT ![k] = [key |-> key, vals |-> <<>>, idxs |-> <<>>]],
                       k, bag[k].idxs)

\* CountEq that counts nothing: the test for a value made of '=' alone is lost
CountEq_none(string) ==
  0

\* the number of '=' characters of a string
CountEq(string) ==
  Cardinality({i \in DOMAIN string : string[i] = "="})

\* what Attributes.__init__ does with one member: skip it, or insert (key, value)
ClassifyMember(member) ==
  IF member = <<>> THEN [skip |-> TRUE, key |-> <<>>, value |-> None]
  ELSE IF IndexOf(member, "=") # 0
  THEN LET e == IndexOf(member, "=")
           key == SubSeq(member, 1, e - 1)
           value == SubSeq(member, e + 1, Len(member))
       IN IF \/ CountEq(value) = Len(value)
             \/ Len(value) = 0
             \/ IndexOf(key, " ") # 0
          THEN [skip |-> FALSE, key |-> unquote(member), value |-> None]
          ELSE [skip |-> FALSE, key |-> key,
                value |-> Some(unescape_double_quote(unquote(value)))]
  ELSE [skip |-> FALSE, key |-> unquote(member), value |-> None]

RECURSIVE AttributesFrom(_, _)
\* the loop of Attributes.__init__ over the members still to read
AttributesFrom(bag, members) ==
  IF members = <<>> THEN bag
  ELSE LET c == ClassifyMember(Head(members))
       IN AttributesFrom(
            IF c.skip THEN bag ELSE Attributes_insert(bag, c.key, c.value, None).bag,
            Tail(members))

Attributes_init(members) ==
  AttributesFrom(<<>>, members)

\* one member of Attributes.__str__
MemberStr(key, value) ==
  IF value # None
  THEN key \o <<"=", "\"">> \o escape_double_quote(value[1]) \o <<"\"">>
  ELSE key

RECURSIVE StrFrom(_, _, _)
\* the loop of Attributes.__str__ from position i with the content built so far
StrFrom(bag, i, content) ==
  IF i >= Attributes_len(bag) THEN [err |-> "", str |-> content]
  ELSE LET kv == Attributes_getitem_int(bag, i)
       IN IF kv = None THEN [err |-> "IndexError", str |-> content]
          ELSE StrFrom(bag, i + 1,
                       (IF content # <<>> THEN content \o <<";", " ">> ELSE content)
                         \o MemberStr(kv[1].key, kv[1].value))

Attributes_str(bag) ==
  IF bag = <<>> THEN [err |-> "", str |-> <<>>]
  ELSE StrFrom(bag, 0, <<>>)

\* Attributes.__iter__ as a list of (key, value), None when a position is missing
Attributes_iter(bag) ==
  LET items == [i \in 1..Attributes_len(bag) |-> Attributes_getitem_int(bag, i - 1)]
  IN IF \A i \in DOMAIN items : items[i] # None
     THEN Some([i \in DOMAIN items |-> items[i][1]])
     ELSE None

\* Attributes.__eq__: list_check holds one (index_a, key_a, key_b) for every
\* member of a that some member of b matches by normalized key and value
Attributes_eq(a, b) ==
  IF Attributes_len(a) # Attributes_len(b) THEN [err |-> "", eq |-> FALSE]
  ELSE LET list_repr_a == Attributes_iter(a)
           list_repr_b == Attributes_iter(b)
       IN IF list_repr_a = None \/ list_repr_b = None
          THEN [err |-> "IndexError", eq |-> FALSE]
          ELSE LET list_check ==
                     {<<i - 1, normalize_str(list_repr_a[1][i].key),
                        normalize_str(list_repr_b[1][j].key)>> :
                        <<i, j>> \in
                          {p \in (DOMAIN list_repr_a[1]) \X (DOMAIN list_repr_b[1]) :
                           /\ normalize_str(list_repr_a[1][p[1]].key)
                                = normalize_str(list_repr_b[1][p[2]].key)
                           /\ list_repr_a[1][p[1]].value = list_repr_b[1][p[2]].value}}
               IN [err |-> "", eq |-> Cardinality(list_check) = Len(list_repr_a[1])]

\* ---------------------------------------------------------------- tokenizer

Weekdays ==
  {<<"M", "o", "n">>, <<"T", "u", "e">>, <<"W", "e", "d">>, <<"T", "h", "u">>,
   <<"F", "r", "i">>, <<"S", "a", "t">>, <<"S", "u", "n">>}

\* str.strip() of the token being built
Strip(string) ==
  rstrip(lstrip(string))

\* the body of the loop of header_content_split for the letter at index
\* (1-based here); st holds the four flags and the result list
SplitStep(string, delimiter, index, st) ==
  LET letter == string[index]
      dq == IF letter = "\"" THEN ~st.in_double_quote ELSE st.in_double_quote
      par == IF letter = "\"" THEN st.in_parenthesis
             ELSE IF letter = "(" /\ ~st.in_parenthesis THEN TRUE
             ELSE IF letter = ")" /\ st.in_parenthesis THEN FALSE
             ELSE st.in_parenthesis
      day == IF \/ letter = "\""
                \/ letter = "(" /\ ~st.in_parenthesis
                \/ letter = ")" /\ st.in_parenthesis
             THEN st.is_on_a_day
             ELSE index - 1 >= 3 /\ SubSeq(string, index - 3, index - 1) \in Weekdays
      v1 == IF letter = "\"" /\ st.in_value /\ ~dq THEN FALSE ELSE st.in_value
      v2 == IF dq THEN v1
            ELSE IF ~v1 /\ letter = "=" THEN TRUE
            ELSE IF letter = ";" /\ v1 THEN FALSE
            ELSE v1
      v3 == IF ~dq /\ v2 /\ letter = delimiter /\ ~day THEN FALSE ELSE v2
      last == st.result[Len(st.result)]
      front == SubSeq(st.result, 1, Len(st.result) - 1)
  IN [in_double_quote |-> dq, in_parenthesis |-> par, in_value |-> v3,
      is_on_a_day |-> day,
      result |-> IF letter = delimiter /\ ~(v3 \/ dq \/ par \/ day)
                 THEN front \o <<Strip(last), <<>>>>
                 ELSE front \o <<Append(last, letter)>>]

RECURSIVE SplitFrom(_, _, _, _)
SplitFrom(string, delimiter, index, st) ==
  IF index > Len(string) THEN st
  ELSE SplitFrom(string, delimiter, index + 1, SplitStep(string, delimiter, index, st))

header_content_split(string, delimiter) ==
  LET st == SplitFrom(string, delimiter, 1,
                      [in_double_quote |-> FALSE, in_parenthesis |-> FALSE,
                       in_value |-> FALSE, is_on_a_day |-> FALSE,
                       result |-> <<<<>>>>])
  IN SubSeq(st.result, 1, Len(st.result) - 1) \o <<Strip(st.result[Len(st.result)])>>

\* ---------------------------------------------------------------- Header operations

\* a Header is seen as [attrs, content, members]: _attrs._bag, _content, _members

\* Header.__init__ for content that is no JSON literal
Header_init(content) ==
  [attrs |-> Attributes_init(header_content_split(content, ";")),
   content |-> content,
   members |-> header_content_split(content, ";")]

\* Header.attrs: the names in position order, None when a position is missing
\* (IndexError of Attributes.__getitem__)
Header_attrs(bag) ==
  LET it == Attributes_iter(bag)
  IN IF it = None THEN None
     ELSE Some([i \in DOMAIN it[1] |-> it[1][i].key])

RECURSIVE Distinct(_, _)
\* the loop of valued_attrs: keep the first occurrence of each name
Distinct(names, seen) ==
  IF names = <<>> THEN seen
  ELSE Distinct(Tail(names),
                IF IndexOf(seen, Head(names)) = 0 THEN Append(seen, Head(names)) ELSE seen)

\* Header.valued_attrs, None when a position is missing
Header_valued_attrs(bag) ==
  LET it == Attributes_iter(bag)
  IN IF it = None THEN None
     ELSE LET valued == SelectSeq(it[1], LAMBDA kv : kv.value # None)
          IN Some(Distinct([i \in DOMAIN valued |-> valued[i].key], <<>>))

\* Header.__contains__, None when Header.attrs raises
Header_contains(bag, item) ==
  LET names == Header_attrs(bag)
  IN IF names = None THEN None
     ELSE Some(\/ IndexOf(names[1], item) # 0
               \/ \E i \in DOMAIN names[1] :
                    \/ normalize_str(item) = normalize_str(names[1][i])
                    \/ IndexOf(header_content_split(normalize_str(names[1][i]), " "),
                               normalize_str(item)) # 0)

\* the two closing assignments of the mutators: _content = str(_attrs), then
\* _members = header_content_split(_content, ";"); str may raise
Resync(h, bag) ==
  LET s == Attributes_str(bag)
  IN IF s.err # ""
     THEN [err |-> s.err, attrs |-> bag, content |-> h.content, members |-> h.members]
     ELSE [err |-> "", attrs |-> bag, content |-> s.str,
           members |-> header_content_split(s.str, ";")]

\* the header h left as it is, with an error or none
Same(h, err) ==
  [err |-> err, attrs |-> h.attrs, content |-> h.content, members |-> h.members]

Header_delitem(h, key) ==
  LET valued == Header_valued_attrs(h.attrs)
  IN IF valued = None THEN Same(h, "IndexError")
     ELSE IF IndexOf(normalize_list(valued[1]), normalize_str(key)) = 0
     THEN Same(h, "KeyError")
     ELSE LET r == Attributes_remove(h.attrs, key, None, Some(TRUE))
          IN IF r.err # "" THEN Same([h EXCEPT !.attrs = r.bag], r.err)
             ELSE Resync(h, r.bag)

\* str(value) of an assigned value: a str stays, an int becomes its digit
py_str(value) ==
  IF value.isstr THEN value.s
  ELSE <<CASE value.n = 0 -> "0" [] value.n = 1 -> "1" [] value.n = 2 -> "2"
           [] value.n = 3 -> "3" [] value.n = 4 -> "4" [] value.n = 5 -> "5"
           [] value.n = 6 -> "6" [] value.n = 7 -> "7" [] value.n = 8 -> "8"
           [] OTHER -> "9">>

\* the part of Header.__setitem__ after the deletion of the valued occurrences
SetAfterDel(h, key, value) ==
  LET removed == Attributes_remove(h.attrs, key, None, None)
      inserted == Attributes_insert(removed.bag, key, Some(py_str(value)), None)
  IN IF removed.err # "" THEN Same([h EXCEPT !.attrs = removed.bag], removed.err)
     ELSE Resync(h, inserted.bag)

Header_setitem(h, key, value) ==
  LET present == Header_contains(h.attrs, key)
  IN IF present = None THEN Same(h, "IndexError")
     ELSE IF present[1]
     THEN LET d == Header_delitem(h, key)
          IN IF d.err # "" THEN d
             ELSE SetAfterDel([attrs |-> d.attrs, content |-> d.content,
                               members |-> d.members], key, value)
     ELSE SetAfterDel(h, key, value)

Header_iadd(h, other) ==
  [err |-> "",
   attrs |-> Attributes_insert(h.attrs, other, None, None).bag,
   content |-> IF lstrip(h.content) # <<>>
               THEN h.content \o <<";", " ">> \o other
               ELSE other,
   members |-> Append(h.members, other)]

Header_isub(h, other) ==
  LET present == Header_contains(h.attrs, other)
  IN IF present = None THEN Same(h, "IndexError")
     ELSE IF ~present[1] THEN Same(h, "ValueError")
     ELSE LET r == Attributes_remove(h.attrs, other, None, Some(FALSE))
          IN IF r.err # "" THEN Same([h EXCEPT !.attrs = r.bag], r.err)
             ELSE Resync(h, r.bag)

RECURSIVE InsertAll(_, _, _)
\* the two loops of Header.insert: items are [key, value], placed from index on
InsertAll(bag, index, items) ==
  IF items = <<>> THEN bag
  ELSE InsertAll(
         Attributes_insert(bag, Head(items).key, Head(items).value, Some(index)).bag,
         index + 1, Tail(items))

\* Header.insert(index, *members, **attributes); items lists the members (value
\* None) followed by the attributes
Header_insert(h, index, items) ==
  LET n == Attributes_len(h.attrs)
      idx == IF index >= 0 THEN index ELSE index % (IF n = 0 THEN 1 ELSE n)
  IN Resync(h, InsertAll(h.attrs, idx, items))

\* Header.pop(int)
Header_pop_int(h, index) ==
  IF index < 0 /\ Attributes_len(h.attrs) = 0 THEN Same(h, "ZeroDivisionError")
  ELSE LET idx == IF index >= 0 THEN index ELSE index % Attributes_len(h.attrs)
           kv == Attributes_getitem_int(h.attrs, idx)
       IN IF kv = None THEN Same(h, "IndexError")
          ELSE LET r == Attributes_remove(h.attrs, kv[1].key, Some(idx), None)
                   s == Attributes_str(r.bag)
               IN IF r.err # "" THEN Same([h EXCEPT !.attrs = r.bag], r.err)
                  ELSE [err |-> s.err, attrs |-> r.bag,
                        content |-> IF s.err = "" THEN s.str ELSE h.content,
                        members |-> h.members]

\* Header.pop(str)
Header_pop_str(h, name) ==
  LET got == Attributes_getitem_str(h.attrs, name)
  IN IF got.err # "" THEN Same(h, got.err)
     ELSE LET r == Attributes_remove(h.attrs, name, None, None)
              s == Attributes_str(r.bag)
          IN IF r.err # "" THEN Same([h EXCEPT !.attrs = r.bag], r.err)
             ELSE [err |-> s.err, attrs |-> r.bag,
                   content |-> IF s.err = "" THEN s.str ELSE h.content,
                   members |-> h.members]

\* Header.get: none is TRUE when None is returned
Header_get(bag, attr) ==
  LET valued == Header_valued_attrs(bag)
  IN IF valued = None
     THEN [err |-> "IndexError", none |-> FALSE, many |-> FALSE, values |-> <<>>]
     ELSE IF IndexOf(normalize_list(valued[1]), normalize_str(attr)) = 0
     THEN [err |-> "", none |-> TRUE, many |-> FALSE, values |-> <<>>]
     ELSE LET got == Attributes_getitem_str(bag, attr)
          IN [err |-> got.err, none |-> FALSE, many |-> got.many, values |-> got.values]

\* Header.content: the content, unquoted when the header has one member
Header_content(h) ==
  LET names == Header_attrs(h.attrs)
  IN IF names = None THEN [err |-> "IndexError", str |-> <<>>]
     ELSE [err |-> "",
           str |-> IF Len(names[1]) = 1 THEN unquote(h.content) ELSE h.content]

\* Attributes.__contains__ for a str
Attributes_contains_str(bag, item) ==
  IF Len(bag) = 0 THEN FALSE ELSE BagFind(bag, item) # 0

\* Header.__eq__ for a str
Header_eq_str(h, other) ==
  LET c == Header_content(h)
  IN IF c.err # "" THEN [err |-> c.err, eq |-> FALSE]
     ELSE [err |-> "", eq |-> c.str = other \/ Attributes_contains_str(h.attrs, other)]

\* the code point of a character; the characters that cannot be written in a
\* string literal are named after their code point
Ord(c) ==
  CASE c = "U+0000" -> 0 [] c = "\t" -> 9 [] c = "\n" -> 10 [] c = "\r" -> 13
    [] c = " " -> 32 [] c = "\"" -> 34 [] c = "'" -> 39 [] c = "-" -> 45
    [] c = ":" -> 58 [] c = ";" -> 59 [] c = "=" -> 61 [] c = "A" -> 65
    [] c = "X" -> 88 [] c = "Y" -> 89 [] c = "\\" -> 92 [] c = "a" -> 97
    [] c = "b" -> 98 [] c = "x" -> 120 [] c = "y" -> 121 [] c = "U+007F" -> 127
    [] c = "U+00E9" -> 233 [] OTHER -> 63

\* the characters the pattern of is_legal_header_name finds:
\* [^\x21-\x7F]|[:;(),<>=@?\[\]\r\n\t &{}\"\\]
IllegalNameChar(c) ==
  \/ Ord(c) \notin 33..127
  \/ c \in {":", ";", "(", ")", ",", "<", ">", "=", "@", "?", "[", "]",
            "\r", "\n", "\t", " ", "&", "{", "}", "\"", "\\"}

is_legal_header_name(n) ==
  n # <<>> /\ \A i \in DOMAIN n : ~IllegalNameChar(n[i])

\* Header(name, content); no header exists when the name is refused
Header_new(n, c) ==
  IF ~is_legal_header_name(n)
  THEN [err |-> "ValueError", hname |-> <<>>, attrs |-> <<>>, content |-> <<>>,
        members |-> <<>>]
  ELSE LET h == Header_init(c)
       IN [err |-> "", hname |-> n, attrs |-> h.attrs, content |-> h.content,
           members |-> h.members]

\* ---------------------------------------------------------------- Headers operations

\* a Header object as it is kept in the heap
Obj(h) ==
  [hname |-> h.hname, attrs |-> h.attrs, content |-> h.content, members |-> h.members]

\* Header.__eq__ for a Header; the headers compared here are built by Header(...)
\* and changed by += only, so that iterating their Attributes cannot raise
Header_eq(a, b) ==
  /\ normalize_str(a.hname) = normalize_str(b.hname)
  /\ Attributes_len(a.attrs) = Attributes_len(b.attrs)
  /\ Attributes_eq(a.attrs, b.attrs).eq

\* Headers.__contains__ for a str
Headers_contains_str(hp, list, item) ==
  \E i \in DOMAIN list : normalize_str(hp[list[i]].hname) = normalize_str(item)

\* Headers.__contains__ for a Header
Headers_contains_header(hp, list, item) ==
  \E i \in DOMAIN list : Header_eq(hp[list[i]], item)

\* the first position of a list of booleans that holds TRUE, 0 when none does
FirstTrue(flags) ==
  IF \E i \in DOMAIN flags : flags[i]
  THEN CHOOSE i \in DOMAIN flags : flags[i] /\ \A j \in 1..(i - 1) : ~flags[j]
  ELSE 0

\* the list without the element at pos, the list itself when pos is 0
RemoveFound(list, pos) ==
  IF pos = 0 THEN list ELSE RemoveAt(list, pos)

\* list.remove(item): the first element equal to item leaves the list
ListRemove(hp, list, item) ==
  RemoveFound(list, FirstTrue([i \in DOMAIN list |-> Header_eq(hp[list[i]], item)]))

RECURSIVE RemoveEach(_, _, _)
\* for header in to_be_removed: self._headers.remove(header)
RemoveEach(hp, list, to_be_removed) ==
  IF to_be_removed = <<>> THEN list
  ELSE RemoveEach(hp, ListRemove(hp, list, hp[Head(to_be_removed)]), Tail(to_be_removed))

\* Named with the names compared as spelled
Named_exact(hp, list, key) ==
  SelectSeq(list, LAMBDA id : hp[id].hname = key)

\* the headers of the list named like key, in list order
Named(hp, list, key) ==
  SelectSeq(list, LAMBDA id : normalize_str(hp[id].hname) = normalize_str(key))

\* Headers.__delitem__
Headers_delitem(hp, list, key) ==
  IF ~Headers_contains_str(hp, list, key) THEN [err |-> "KeyError", list |-> list]
  ELSE [err |-> "", list |-> RemoveEach(hp, list, Named(hp, list, key))]

\* Headers.__isub__ for a str
Headers_isub_str(hp, list, other) ==
  [err |-> "", list |-> RemoveEach(hp, list, Named(hp, list, other))]

\* Headers.__isub__ for a Header
Headers_isub_header(hp, list, other) ==
  [err |-> "",
   list |-> IF Headers_contains_header(hp, list, other)
            THEN ListRemove(hp, list, other) ELSE list]

\* Headers.pop for a str
Headers_pop_str(hp, list, item) ==
  IF ~Headers_contains_str(hp, list, item) THEN [err |-> "IndexError", list |-> list]
  ELSE [err |-> "", list |-> RemoveEach(hp, list, Named(hp, list, item))]

\* Header.__deepcopy__: Header(self.name, self.content)
Header_deepcopy(h) ==
  Obj(Header_new(h.hname, Header_content(h).str))

\* Headers.__deepcopy__ without the copies: the same Header objects, listed again
Headers_deepcopy_shallow(hp, list) ==
  [heap |-> hp, list |-> list]

\* Headers.__deepcopy__: the heap grown by the copies of the listed headers, and
\* the list of the copies; deepcopy copies an object listed twice once
Headers_deepcopy(hp, list) ==
  [heap |-> hp \o [i \in DOMAIN list |-> Header_deepcopy(hp[list[i]])],
   list |-> [i \in DOMAIN list |-> Len(hp) + IndexOf(list, list[i])]]

\* Headers.__iadd__: the Header object id joins the list
Headers_iadd(list, id) ==
  Append(list, id)

\* the contents Headers.__setitem__ builds headers from, given the entries of
\* the value
EntriesOf(key, value, entries) ==
  IF normalize_str(key) # <<"s", "u", "b", "j", "e", "c", "t">> /\ Len(entries) > 1
  THEN entries ELSE <<value>>

\* the appends of Headers.__setitem__: one Header(key, content) per content
AppendEntries(hp, kept, key, contents) ==
  IF ~is_legal_header_name(key)
  THEN [err |-> "ValueError", heap |-> hp, list |-> kept]
  ELSE [err |-> "",
        heap |-> hp \o [i \in DOMAIN contents |-> Obj(Header_new(key, contents[i]))],
        list |-> kept \o [i \in DOMAIN contents |-> Len(hp) + i]]

\* Headers.__setitem__; value is [isstr, s]
Headers_setitem(hp, list, key, value) ==
  IF ~value.isstr THEN [err |-> "TypeError", heap |-> hp, list |-> list]
  ELSE AppendEntries(hp,
                     IF Headers_contains_str(hp, list, key)
                     THEN Headers_delitem(hp, list, key).list ELSE list,
                     key, EntriesOf(key, value.s, header_content_split(value.s, ",")))

\* Headers.keys: the distinct names in order of appearance
Headers_keys(hp, list) ==
  Distinct([i \in DOMAIN list |-> hp[list[i]].hname], <<>>)

\* the builder classes with __squash__ = True, as header_name_to_class
\* compares them
SquashedNames ==
  {<<"a", "c", "c", "e", "p", "t">>, <<"a", "l", "l", "o", "w">>,
   <<"t", "r", "a", "n", "s", "f", "e", "r", "e", "n", "c", "o", "d", "i", "n", "g">>,
   <<"a", "l", "t", "s", "v", "c">>,
   <<"r", "e", "f", "e", "r", "r", "e", "r", "p", "o", "l", "i", "c", "y">>,
   <<"a", "c", "c", "e", "p", "t", "l", "a", "n", "g", "u", "a", "g", "e">>,
   <<"w", "w", "w", "a", "u", "t", "h", "e", "n", "t", "i", "c", "a", "t", "e">>,
   <<"c", "a", "c", "h", "e", "c", "o", "n", "t", "r", "o", "l">>,
   <<"k", "e", "e", "p", "a", "l", "i", "v", "e">>,
   <<"i", "f", "m", "a", "t", "c", "h">>, <<"v", "a", "r", "y">>}

\* normalize_str(name).replace("_", "") names a squashed builder class
Squashed(header_name) ==
  SelectSeq(normalize_str(header_name), LAMBDA c : c # "_") \in SquashedNames

RECURSIVE JoinWith(_, _)
\* sep.join(strings)
JoinWith(sep, strings) ==
  IF strings = <<>> THEN <<>>
  ELSE IF Len(strings) = 1 THEN Head(strings)
  ELSE Head(strings) \o sep \o JoinWith(sep, Tail(strings))

\* Header.__repr__
Header_repr(h) ==
  h.hname \o <<":", " ">> \o h.content

\* the lines Headers.__repr__ collects for one name of keys()
ReprOf(hp, list, header_name) ==
  LET r == Named(hp, list, header_name)
  IN IF Len(r) > 1 /\ Squashed(header_name)
     THEN <<header_name \o <<":", " ">>
              \o JoinWith(<<",", " ">>, [i \in DOMAIN r |-> Header_content(hp[r[i]]).str])>>
     ELSE [i \in DOMAIN r |-> Header_repr(hp[r[i]])]

\* the list result of Headers.__repr__
Headers_repr_lines(hp, list) ==
  LET keys == Headers_keys(hp, list)
  IN Concat([k \in DOMAIN keys |-> ReprOf(hp, list, keys[k])])

\* Headers.__repr__
Headers_repr(hp, list) ==
  JoinWith(<<"\r", "\n">>, Headers_repr_lines(hp, list))

\* Headers.__eq__ for a Headers
Headers_eq(hp, list, other_hp, other_list) ==
  /\ Len(other_list) = Len(list)
  /\ \A i \in DOMAIN list : Headers_contains_header(other_hp, other_list, hp[list[i]])

\* ---------------------------------------------------------------- serializer.py

\* the place of attribute among the keys of encoded_header, 0 when absent
EncodedFind(encoded_header, attribute) ==
  IF \E k \in DOMAIN encoded_header : encoded_header[k].key = attribute
  THEN CHOOSE k \in DOMAIN encoded_header : encoded_header[k].key = attribute
  ELSE 0

\* one turn of the inner loop of encode: the first value of an attribute is
\* stored as it is, the next ones make a list of it
EncodedWith(encoded_header, item, k) ==
  IF k = 0
  THEN Append(encoded_header, [key |-> item.key, many |-> FALSE, values |-> <<item.value>>])
  ELSE [encoded_header EXCEPT ![k].many = TRUE, ![k].values = Append(@, item.value)]

RECURSIVE EncodeItems(_, _)
\* the inner loop of encode over the (attribute, value) pairs of a header
EncodeItems(items, encoded_header) ==
  IF items = <<>> THEN encoded_header
  ELSE EncodeItems(Tail(items),
                   EncodedWith(encoded_header, Head(items),
                               EncodedFind(encoded_header, Head(items).key)))

\* one encoded header; its pairs come from Header.__iter__
encode_header(h) ==
  EncodeItems(Attributes_iter(h.attrs)[1], <<>>)

\* encode: for each name, in order of appearance, the encoded headers spelled so
encode(hp, list) ==
  LET names == Headers_keys(hp, list)
  IN [n \in DOMAIN names |->
        [name |-> names[n],
         headers |-> LET same == SelectSeq(list, LAMBDA id : hp[id].hname = names[n])
                     IN [i \in DOMAIN same |-> encode_header(hp[same[i]])]]]

RECURSIVE DecodeInserts(_, _, _)
\* header.insert(-1, **{attr: sub_value}) for each sub_value of a list
DecodeInserts(h, attr, values) ==
  IF values = <<>> \/ h.err # "" THEN h
  ELSE DecodeInserts(Header_insert(h, 0 - 1, <<[key |-> attr, value |-> Head(values)]>>),
                     attr, Tail(values))

\* one turn of the inner loop of decode
DecodeEntry(h, entry) ==
  IF ~entry.many /\ entry.values[1] = None THEN Header_iadd(h, entry.key)
  ELSE IF ~entry.many
  THEN Header_setitem(h, entry.key, [isstr |-> TRUE, s |-> entry.values[1][1]])
  ELSE DecodeInserts(h, entry.key, entry.values)

RECURSIVE DecodeEntries(_, _)
\* the inner loop of decode; an exception ends it
DecodeEntries(h, entries) ==
  IF entries = <<>> \/ h.err # "" THEN h
  ELSE DecodeEntries(DecodeEntry(h, Head(entries)), Tail(entries))

\* one decoded header: Header(header_name, "") filled from its encoded form
decode_header(header_name, encoded_header) ==
  [hname |-> header_name, made |-> DecodeEntries(Same(Header_init(<<>>), ""), encoded_header)]

\* the encoded headers of all names, in the order decode reads them
EncodedList(encoded_headers) ==
  Concat([n \in DOMAIN encoded_headers |->
            [i \in DOMAIN encoded_headers[n].headers |->
               [name |-> encoded_headers[n].name, header |-> encoded_headers[n].headers[i]]]])

\* the Headers decode returns, made of new objects of the heap, or its exception
Decoded(hp, made) ==
  IF \E i \in DOMAIN made : made[i].made.err # ""
  THEN [err |-> (made[CHOOSE i \in DOMAIN made :
                         /\ made[i].made.err # ""
                         /\ \A j \in 1..(i - 1) : made[j].made.err = ""]).made.err,
        heap |-> hp, list |-> <<>>]
  ELSE [err |-> "",
        heap |-> hp \o [i \in DOMAIN made |->
                          [hname |-> made[i].hname, attrs |-> made[i].made.attrs,
                           content |-> made[i].made.content,
                           members |-> made[i].made.members]],
        list |-> [i \in DOMAIN made |-> Len(hp) + i]]

\* the headers decode builds from the list of encoded headers
DecodeAll(hp, encoded) ==
  Decoded(hp, [i \in DOMAIN encoded |-> decode_header(encoded[i].name, encoded[i].header)])

\* decode
decode(hp, encoded_headers) ==
  DecodeAll(hp, EncodedList(encoded_headers))

\* ---------------------------------------------------------------- state

VARIABLES
  attrs,    \* Attributes._bag: the ordered store of [key, vals, idxs]
  content,  \* Header._content
  members,  \* Header._members
  op,       \* the last call: its name and the error it raised
  calls,    \* how many calls were made on the Header
  hname,    \* Header._name
  heap,     \* the Header objects that exist, by identity
  headers,  \* Headers._headers: a list of identities
  result    \* what the last operator returned: a list of identities

vars == <<attrs, content, members, op, calls, hname, heap, headers, result>>

\* the variables of a Headers collection and of the name of a Header
outside == <<hname, heap, headers, result>>

\* the keys, values and tokens the calls are given
Keys == {<<"a">>, <<"A">>, <<"b">>}

Values == {None, Some(<<"1">>)}

Tokens == {<<>>, <<"a">>, <<"b">>, <<"a", "=", "1">>, <<"A", "=", "2">>}

\* the least index the calls are given
MinIndex == 0 - 2

\* Optional[int] arguments from lo to hi
OptInts(lo, hi) == {None} \cup {Some(i) : i \in lo..hi}

OptBools == {None, Some(TRUE), Some(FALSE)}

\* all lists of at most n elements of S
SeqsUpTo(S, n) == UNION {[1..m -> S] : m \in 0..n}

\* no operator returned an object yet
NoResult == [kind |-> "none", ids |-> <<>>]

\* the record of a call: its name and the error it raised ("" for none)
Call(name, err) == [name |-> name, err |-> err]

\* ---------------------------------------------------------------- Attributes alone

\* an Attributes built from a token list
Init ==
  /\ \E tokens \in SeqsUpTo(Tokens, MaxTokens) : attrs = Attributes_init(tokens)
  /\ content = <<>>
  /\ members = <<>>
  /\ op = Call("init", "")
  /\ calls = 0
  /\ hname = <<"X">> /\ heap = <<>> /\ headers = <<>> /\ result = NoResult

\* one call of Attributes.insert
InsertStep(key, value, index) ==
  /\ Attributes_len(attrs) < MaxLen
  /\ index # None => index[1] <= Attributes_len(attrs)
  /\ LET r == Attributes_insert(attrs, key, value, index)
     IN /\ attrs' = r.bag
        /\ op' = Call("insert", r.err)
  /\ UNCHANGED <<content, members, calls, outside>>

AttrInsert ==
  \E key \in Keys, value \in Values, index \in OptInts(MinIndex, MaxLen) :
    InsertStep(key, value, index)

\* one call of Attributes.remove
RemoveStep(key, index, with_value) ==
  /\ (index # None /\ with_value # None) => index = Some(0)
  /\ LET r == Attributes_remove(attrs, key, index, with_value)
     IN /\ attrs' = r.bag
        /\ op' = Call("remove", r.err)
  /\ UNCHANGED <<content, members, calls, outside>>

AttrRemove ==
  \E key \in Keys, index \in OptInts(MinIndex, MaxLen), with_value \in OptBools :
    RemoveStep(key, index, with_value)

Next == AttrInsert \/ AttrRemove

Spec == Init /\ [][Next]_vars

\* ---------------------------------------------------------------- Header

\* the keys the Header calls are given
HKeys == {<<"A">>, <<"b">>}

\* the values header[key] = value is given: a str and an int
SetValues ==
  {[isstr |-> TRUE, s |-> <<"1">>, n |-> 0], [isstr |-> FALSE, s |-> <<>>, n |-> 2]}

\* the strings header += other is given
IaddStrings == {<<"b">>, <<"b", "=", "1">>}

\* the members and attributes Header.insert is given, as lists of [key, value]
InsertItems ==
  {<<[key |-> <<"b">>, value |-> None]>>,
   <<[key |-> <<"b">>, value |-> None], [key |-> <<"a">>, value |-> Some(<<"1">>)]>>}

RECURSIVE Join(_)
\* "; ".join(tokens)
Join(tokens) ==
  IF tokens = <<>> THEN <<>>
  ELSE IF Len(tokens) = 1 THEN Head(tokens)
  ELSE Head(tokens) \o <<";", " ">> \o Join(Tail(tokens))

\* the header as one value
Hdr == [attrs |-> attrs, content |-> content, members |-> members]

\* the header becomes what a call returned in r
Becomes(name, r) ==
  /\ calls' = calls + 1
  /\ attrs' = r.attrs
  /\ content' = r.content
  /\ members' = r.members
  /\ op' = Call(name, r.err)
  /\ UNCHANGED outside

\* a Header built from a content string
InitH ==
  /\ \E tokens \in SeqsUpTo(Tokens, MaxTokens) :
       LET h == Header_init(Join(tokens))
       IN attrs = h.attrs /\ content = h.content /\ members = h.members
  /\ op = Call("init", "")
  /\ calls = 0
  /\ hname = <<"X">> /\ heap = <<>> /\ headers = <<>> /\ result = NoResult

\* header[key] = value
SetStep(key, value) ==
  /\ calls < MaxCalls
  /\ Attributes_len(attrs) < MaxLen \/ BagFind(attrs, key) # 0
  /\ Becomes("setitem", Header_setitem(Hdr, key, value))

HSet == \E key \in HKeys, value \in SetValues : SetStep(key, value)

\* del header[key]
DelStep(key) ==
  /\ calls < MaxCalls
  /\ Becomes("delitem", Header_delitem(Hdr, key))

HDel == \E key \in HKeys : DelStep(key)

\* header.insert(index, ...)
HInsertStep(index, items) ==
  /\ calls < MaxCalls
  /\ Attributes_len(attrs) + Len(items) <= MaxLen
  /\ index <= Attributes_len(attrs) + 1
  /\ Becomes("insert", Header_insert(Hdr, index, items))

HInsert ==
  \E index \in (0 - 1)..(MaxLen + 1), items \in InsertItems : HInsertStep(index, items)

\* header.pop(index)
PopIntStep(index) ==
  /\ calls < MaxCalls
  /\ Becomes("pop", Header_pop_int(Hdr, index))

HPopInt == \E index \in (0 - 1)..(MaxLen - 1) : PopIntStep(index)

\* header.pop(name)
PopStrStep(name) ==
  /\ calls < MaxCalls
  /\ Becomes("pop", Header_pop_str(Hdr, name))

HPopStr == \E name \in HKeys : PopStrStep(name)

\* header += other
IaddStep(other) ==
  /\ calls < MaxCalls
  /\ Attributes_len(attrs) < MaxLen
  /\ Len(members) < MaxLen
  /\ Becomes("iadd", Header_iadd(Hdr, other))

HIadd == \E other \in IaddStrings : IaddStep(other)

\* header -= other
IsubStep(other) ==
  /\ calls < MaxCalls
  /\ Becomes("isub", Header_isub(Hdr, other))

HIsub == \E other \in HKeys : IsubStep(other)

NextH == HSet \/ HDel \/ HInsert \/ HPopInt \/ HPopStr \/ HIadd \/ HIsub

SpecH == InitH /\ [][NextH]_vars

\* ---------------------------------------------------------------- Header construction

\* the characters of the names and of the contents Header(...) is given
NameChars == {"a", "-", ":", " ", "\t", "'", "\"", "\\", "U+0000", "U+007F", "U+00E9"}

ContentChars == {"a", ";", "\"", "\\"}

\* no Header was built yet
InitNew ==
  /\ attrs = <<>> /\ content = <<>> /\ members = <<>>
  /\ op = Call("none", "")
  /\ calls = 0
  /\ hname = <<>> /\ heap = <<>> /\ headers = <<>> /\ result = NoResult

\* Header(n, c)
NewStep(n, c) ==
  /\ calls = 0
  /\ LET h == Header_new(n, c)
     IN /\ hname' = h.hname
        /\ attrs' = h.attrs
        /\ content' = h.content
        /\ members' = h.members
        /\ op' = Call("new", h.err)
  /\ calls' = 1
  /\ UNCHANGED <<heap, headers, result>>

NextNew ==
  \E n \in SeqsUpTo(NameChars, MaxName), c \in SeqsUpTo(ContentChars, MaxContent) :
    NewStep(n, c)

SpecNew == InitNew /\ [][NextNew]_vars

\* ---------------------------------------------------------------- Headers

\* the names and contents of the headers a collection starts with
HsNames == {<<"X">>, <<"x">>, <<"V", "a", "r", "y">>}

HsContents == {<<"a">>, <<"a", ";", " ", "a">>}

\* the names the calls on a collection are given
HsKeys == {<<"x">>, <<"v", "a", "r", "y">>}

\* the Header(n, c) the calls on a collection are given
OperandNames == {<<"X">>, <<"x">>}

OperandContents == {<<"a">>, <<"a", ";", " ", "b">>}

\* the keys and values headers[key] = value is given: three str and an int
HsSetKeys == {<<"x">>, <<"S", "u", "b", "j", "e", "c", "t">>}

HsSetValues ==
  {[isstr |-> TRUE, s |-> <<"a">>], [isstr |-> TRUE, s |-> <<"a", ",", " ", "b">>],
   [isstr |-> TRUE, s |-> <<"\"", "a", ",", "b", "\"">>], [isstr |-> FALSE, s |-> <<>>]}

\* the headers of a list, as values
Deref(hp, list) ==
  [i \in DOMAIN list |-> hp[list[i]]]

\* a Headers built from Header(n, c) objects
InitS ==
  /\ \E hs \in SeqsUpTo(HsNames \X HsContents, MaxHeaders) :
       /\ heap = [i \in DOMAIN hs |-> Obj(Header_new(hs[i][1], hs[i][2]))]
       /\ headers = [i \in DOMAIN hs |-> i]
  /\ result = NoResult
  /\ op = Call("init", "")
  /\ calls = 0
  /\ attrs = <<>> /\ content = <<>> /\ members = <<>> /\ hname = <<>>

\* headers[key] = value
HsSetStep(key, value) ==
  /\ calls < MaxHsCalls
  /\ LET r == Headers_setitem(heap, headers, key, value)
     IN /\ heap' = r.heap
        /\ headers' = r.list
        /\ op' = Call("hs_setitem", r.err)
  /\ calls' = calls + 1
  /\ UNCHANGED <<attrs, content, members, hname, result>>

\* del headers[key]
HsDelStep(key) ==
  /\ calls < MaxHsCalls
  /\ LET r == Headers_delitem(heap, headers, key)
     IN /\ headers' = r.list
        /\ op' = Call("hs_delitem", r.err)
  /\ calls' = calls + 1
  /\ UNCHANGED <<attrs, content, members, hname, heap, result>>

\* headers -= key
HsIsubStrStep(key) ==
  /\ calls < MaxHsCalls
  /\ LET r == Headers_isub_str(heap, headers, key)
     IN /\ headers' = r.list
        /\ op' = Call("hs_isub_str", r.err)
  /\ calls' = calls + 1
  /\ UNCHANGED <<attrs, content, members, hname, heap, result>>

\* headers -= Header(n, c)
HsIsubHeaderStep(n, c) ==
  /\ calls < MaxHsCalls
  /\ LET r == Headers_isub_header(heap, headers, Obj(Header_new(n, c)))
     IN /\ headers' = r.list
        /\ op' = Call("hs_isub_header", r.err)
  /\ calls' = calls + 1
  /\ UNCHANGED <<attrs, content, members, hname, heap, result>>

\* headers.pop(key)
HsPopStep(key) ==
  /\ calls < MaxHsCalls
  /\ LET r == Headers_pop_str(heap, headers, key)
     IN /\ headers' = r.list
        /\ op' = Call("hs_pop", r.err)
  /\ calls' = calls + 1
  /\ UNCHANGED <<attrs, content, members, hname, heap, result>>

\* headers += Header(n, c)
HsIaddStep(n, c) ==
  /\ calls < MaxHsCalls
  /\ heap' = Append(heap, Obj(Header_new(n, c)))
  /\ headers' = Headers_iadd(headers, Len(heap) + 1)
  /\ op' = Call("hs_iadd", "")
  /\ calls' = calls + 1
  /\ UNCHANGED <<attrs, content, members, hname, result>>

NextS ==
  \/ \E key \in HsSetKeys, value \in HsSetValues : HsSetStep(key, value)
  \/ \E key \in HsKeys : HsDelStep(key)
  \/ \E key \in HsKeys : HsIsubStrStep(key)
  \/ \E n \in OperandNames, c \in OperandContents : HsIsubHeaderStep(n, c)
  \/ \E key \in HsKeys : HsPopStep(key)
  \/ \E n \in OperandNames, c \in OperandContents : HsIaddStep(n, c)

SpecS == InitS /\ [][NextS]_vars

\* ---------------------------------------------------------------- operators that return a new object

OpStrings == {<<"a">>, <<"b">>}

\* what an operator returns: a Headers or a Header made of objects of the heap
Result(kind, ids) ==
  [kind |-> kind, ids |-> ids]

\* what an operator leaves: the heap, its result, and the exception it raised
Outcome(hp, res, err) ==
  [heap |-> hp, result |-> res, err |-> err]

\* the Header object h after an in-place operation that gave r
Applied(h, r) ==
  [hname |-> h.hname, attrs |-> r.attrs, content |-> r.content, members |-> r.members]

\* the Header object id becomes what an in-place operation made of it
Mutated(hp, id, r) ==
  [hp EXCEPT ![id] = Applied(hp[id], r)]

\* headers += other on the copy d of Headers.__add__
Added(d, other) ==
  Outcome(Append(d.heap, other), Result("Headers", Headers_iadd(d.list, Len(d.heap) + 1)), "")

\* Headers.__add__
Headers_add(hp, list, other) ==
  Added(Headers_deepcopy(hp, list), other)

\* headers -= other on the copy d of Headers.__sub__, other a str
SubtractedStr(d, other) ==
  Outcome(d.heap, Result("Headers", Headers_isub_str(d.heap, d.list, other).list), "")

\* headers -= other on the copy d of Headers.__sub__, other a Header
SubtractedHeader(d, other) ==
  Outcome(d.heap, Result("Headers", Headers_isub_header(d.heap, d.list, other).list), "")

\* Headers.__sub__ for a str
Headers_sub_str(hp, list, other) ==
  SubtractedStr(Headers_deepcopy(hp, list), other)

\* Headers.__sub__ for a Header
Headers_sub_header(hp, list, other) ==
  SubtractedHeader(Headers_deepcopy(hp, list), other)

\* deepcopy(headers)
Headers_copy(d) ==
  Outcome(d.heap, Result("Headers", d.list), "")

\* the copy header_ of Header.__add__ and __sub__ enters the heap as the
\* in-place operation left it; nothing is returned when the operation raised
Returned(hp, header_, r) ==
  IF r.err # "" THEN Outcome(hp, NoResult, r.err)
  ELSE Outcome(Append(hp, Applied(header_, r)), Result("Header", <<Len(hp) + 1>>), "")

\* header_ += other on the copy header_ of Header.__add__
AddedStr(hp, header_, other) ==
  Returned(hp, header_, Header_iadd(header_, other))

\* header_ -= other on the copy header_ of Header.__sub__
SubtractedMember(hp, header_, other) ==
  Returned(hp, header_, Header_isub(header_, other))

\* Header.__add__ for a str
Header_add_str(hp, h, other) ==
  AddedStr(hp, Header_deepcopy(h), other)

\* Header.__sub__
Header_sub(hp, h, other) ==
  SubtractedMember(hp, Header_deepcopy(h), other)

\* an operator returns o
Returns(call, o) ==
  /\ heap' = o.heap
  /\ result' = o.result
  /\ op' = Call(call, o.err)
  /\ calls' = calls + 1
  /\ UNCHANGED <<attrs, content, members, hname, headers>>

\* an in-place operation on the Header object id gives r
Changes(call, id, r) ==
  /\ heap' = Mutated(heap, id, r)
  /\ op' = Call(call, r.err)
  /\ calls' = calls + 1
  /\ UNCHANGED <<attrs, content, members, hname, headers, result>>

\* result = headers + Header(n, c)
HsAddStep(n, c) ==
  /\ calls < MaxCalls /\ result = NoResult
  /\ Returns("hs_add", Headers_add(heap, headers, Obj(Header_new(n, c))))

\* result = headers - key
HsSubStrStep(key) ==
  /\ calls < MaxCalls /\ result = NoResult
  /\ Returns("hs_sub_str", Headers_sub_str(heap, headers, key))

\* result = headers - Header(n, c)
HsSubHeaderStep(n, c) ==
  /\ calls < MaxCalls /\ result = NoResult
  /\ Returns("hs_sub_header", Headers_sub_header(heap, headers, Obj(Header_new(n, c))))

\* result = deepcopy(headers)
HsCopyStep ==
  /\ calls < MaxCalls /\ result = NoResult
  /\ Returns("hs_deepcopy", Headers_copy(Headers_deepcopy(heap, headers)))

\* result = headers[i] + other, other a str
HAddStrStep(i, other) ==
  /\ calls < MaxCalls /\ result = NoResult
  /\ i \in DOMAIN headers
  /\ Returns("h_add_str", Header_add_str(heap, heap[headers[i]], other))

\* result = headers[i] - other, other a str
HSubStrStep(i, other) ==
  /\ calls < MaxCalls /\ result = NoResult
  /\ i \in DOMAIN headers
  /\ Returns("h_sub_str", Header_sub(heap, heap[headers[i]], other))

\* header += other on the i-th header of the result
ResIaddStep(i, other) ==
  /\ calls < MaxCalls /\ result # NoResult
  /\ i \in DOMAIN result.ids
  /\ Changes("res_iadd", result.ids[i], Header_iadd(heap[result.ids[i]], other))

\* header -= other on the i-th header of the result
ResIsubStep(i, other) ==
  /\ calls < MaxCalls /\ result # NoResult
  /\ i \in DOMAIN result.ids
  /\ Changes("res_isub", result.ids[i], Header_isub(heap[result.ids[i]], other))

\* result -= key on a Headers result
ResIsubStrStep(key) ==
  /\ calls < MaxCalls /\ result.kind = "Headers"
  /\ result' = Result("Headers", Headers_isub_str(heap, result.ids, key).list)
  /\ op' = Call("res_isub_str", "")
  /\ calls' = calls + 1
  /\ UNCHANGED <<attrs, content, members, hname, heap, headers>>

NextOp ==
  \/ \E n \in OperandNames, c \in OperandContents : HsAddStep(n, c)
  \/ \E key \in HsKeys : HsSubStrStep(key)
  \/ \E n \in OperandNames, c \in OperandContents : HsSubHeaderStep(n, c)
  \/ HsCopyStep
  \/ \E i \in 1..MaxHeaders, other \in OpStrings : HAddStrStep(i, other)
  \/ \E i \in 1..MaxHeaders, other \in OpStrings : HSubStrStep(i, other)
  \/ \E i \in 1..(MaxHeaders + 1), other \in OpStrings : ResIaddStep(i, other)
  \/ \E i \in 1..(MaxHeaders + 1), other \in OpStrings : ResIsubStep(i, other)
  \/ \E key \in HsKeys : ResIsubStrStep(key)

SpecOp == InitS /\ [][NextOp]_vars

\* ---------------------------------------------------------------- tokenizing and parsing a content

\* the pieces a content is made of; Mon stands for the weekday abbreviations
Pieces ==
  {<<"a">>, <<"=">>, <<";">>, <<",">>, <<" ">>, <<"\"">>, <<"M", "o", "n">>}

Delimiters == {";", ",", " "}

\* the name of the call header_content_split(content, delimiter)
SplitCall(delimiter) ==
  CASE delimiter = ";" -> "split ;"
    [] delimiter = "," -> "split ,"
    [] OTHER -> "split space"

InitT ==
  /\ \E pieces \in SeqsUpTo(Pieces, MaxPieces) : content = Concat(pieces)
  /\ attrs = <<>> /\ members = <<>>
  /\ op = Call("none", "")
  /\ calls = 0
  /\ hname = <<>> /\ heap = <<>> /\ headers = <<>> /\ result = NoResult

\* members = header_content_split(content, delimiter)
TSplitStep(delimiter) ==
  /\ calls = 0
  /\ members' = header_content_split(content, delimiter)
  /\ op' = Call(SplitCall(delimiter), "")
  /\ calls' = 1
  /\ UNCHANGED <<attrs, content, outside>>

\* attrs = Attributes(members), for the members of a split on ';'
TParseStep ==
  /\ op = Call(SplitCall(";"), "")
  /\ attrs' = Attributes_init(members)
  /\ op' = Call("Attributes", "")
  /\ calls' = 2
  /\ UNCHANGED <<content, members, outside>>

NextT ==
  \/ \E delimiter \in Delimiters : TSplitStep(delimiter)
  \/ TParseStep

SpecT == InitT /\ [][NextT]_vars

\* ---------------------------------------------------------------- encoding and decoding a Headers

EncNames == {<<"X">>, <<"x">>}

\* contents with an attribute of two values, a name that is an adjective and
\* an attribute, and an adjective of two words
EncContents ==
  {<<"a">>, <<"a", "=", "1">>,
   <<"a", "=", "1", ";", " ", "a", "=", "2">>,
   <<"a", ";", " ", "a", "=", "1">>,
   <<"a", " ", "b", ";", " ", "b", "=", "1">>,
   <<"b", "=", "1", ";", " ", "a", " ", "b">>}

InitE ==
  /\ \E hs \in SeqsUpTo(EncNames \X EncContents, MaxHeaders) :
       /\ heap = [i \in DOMAIN hs |-> Obj(Header_new(hs[i][1], hs[i][2]))]
       /\ headers = [i \in DOMAIN hs |-> i]
  /\ result = NoResult
  /\ op = Call("init", "")
  /\ calls = 0
  /\ attrs = <<>> /\ content = <<>> /\ members = <<>> /\ hname = <<>>

\* decode returns o
Decodes(o) ==
  /\ heap' = o.heap
  /\ result' = IF o.err # "" THEN NoResult ELSE Result("Headers", o.list)
  /\ op' = Call("decode", o.err)

\* result = decode(encode(headers))
DecodeEncodeStep ==
  /\ calls = 0
  /\ Decodes(decode(heap, encode(heap, headers)))
  /\ calls' = 1
  /\ UNCHANGED <<attrs, content, members, hname, headers>>

NextE == DecodeEncodeStep

SpecE == InitE /\ [][NextE]_vars

\* ---------------------------------------------------------------- views used by the properties

\* the occurrences of a bag as <<normalized key, value, position>>
Occurrences(bag) ==
  UNION {{<<normalize_str(bag[a].key), bag[a].vals[i], bag[a].idxs[i]>> :
            i \in DOMAIN bag[a].idxs} : a \in DOMAIN bag}

RECURSIVE SumLens(_)
\* how many occurrences the bag stores, counted entry by entry
SumLens(bag) ==
  IF bag = <<>> THEN 0 ELSE Len(Head(bag).idxs) + SumLens(Tail(bag))

RECURSIVE Ascending(_)
\* the elements of a finite set of integers in increasing order
Ascending(S) ==
  IF S = {} THEN <<>>
  ELSE LET m == CHOOSE x \in S : \A y \in S : x <= y
       IN <<m>> \o Ascending(S \ {m})

\* the values of the valued occurrences of key, by increasing position
ValuesByPosition(bag, key) ==
  LET occ == {o \in Occurrences(bag) : o[1] = normalize_str(key) /\ o[2] # None}
      order == Ascending({o[3] : o \in occ})
  IN [i \in DOMAIN order |-> (CHOOSE o \in occ : o[3] = order[i])[2][1]]

\* the position a call of insert or remove means by index, on a bag of length n
Resolve(index, n) ==
  IF index[1] < 0 THEN index[1] % n ELSE index[1]

\* the occurrences remove(key, index, with_value) is meant to delete
Selected(bag, key, index, with_value) ==
  {o \in Occurrences(bag) :
     /\ o[1] = normalize_str(key)
     /\ IF index # None THEN o[3] = Resolve(index, Attributes_len(bag))
        ELSE IF with_value = None THEN TRUE
        ELSE IF with_value[1] THEN o[2] # None
        ELSE o[2] = None}

\* occurrence o moved down by the number of freed positions below it
MovedDown(o, freed) ==
  <<o[1], o[2], o[3] - Cardinality({f \in freed : f[3] < o[3]})>>

\* the occurrences of key in a bag
OccurrencesOf(bag, key) ==
  {o \in Occurrences(bag) : o[1] = normalize_str(key)}

\* the <<key, value>> of the members with another key, by increasing position
OthersInOrder(bag, key) ==
  LET occ == Occurrences(bag) \ OccurrencesOf(bag, key)
      order == Ascending({o[3] : o \in occ})
  IN [i \in DOMAIN order |->
        LET o == CHOOSE o \in occ : o[3] = order[i] IN <<o[1], o[2]>>]

\* the bag without the occurrences in freed, the others moved down
Without(bag, freed) ==
  {MovedDown(o, freed) : o \in Occurrences(bag) \ freed}

\* ---------------------------------------------------------------- C1

\* C1: the positions stored across all keys are exactly 0 .. len-1, without
\* gap and without duplicate, after construction and after every insert and
\* remove.
DenseIndex ==
  /\ Positions(attrs) = 0..(Attributes_len(attrs) - 1)
  /\ SumLens(attrs) = Attributes_len(attrs)

\* ---------------------------------------------------------------- C2

\* C2: remove, in each of its three modes, leaves exactly the prior members
\* without the selected occurrences of key; every other member keeps its value
\* and moves down by the number of freed positions below it.
RemoveDeletesSelected ==
  [][\A key \in Keys, index \in OptInts(MinIndex, MaxLen), with_value \in OptBools :
       (RemoveStep(key, index, with_value) /\ ~(index # None /\ with_value # None))
         => LET freed == Selected(attrs, key, index, with_value)
            IN /\ Occurrences(attrs') =
                    {MovedDown(o, freed) : o \in Occurrences(attrs) \ freed}
               /\ SumLens(attrs') = SumLens(attrs) - Cardinality(freed)]_vars

\* ---------------------------------------------------------------- C3

\* C3: insert(key, value, position) with 0 <= position <= len puts the new
\* member at that position, moves every member at or after it up by one, leaves
\* the members before it alone and grows the length by one; without a position
\* the new member gets position len; a negative position p stands for p modulo
\* the length, so that -1 inserts just before the last member.
InsertPlacesMember ==
  \A key \in Keys, value \in Values, index \in OptInts(MinIndex, MaxLen + 1) :
    LET n == Attributes_len(attrs)
        r == Attributes_insert(attrs, key, value, index)
        p == IF index = None THEN n ELSE Resolve(index, n)
    IN ((index # None => index[1] <= n) /\ r.err = "")
         => /\ Occurrences(r.bag) =
                 {<<o[1], o[2], IF o[3] >= p THEN o[3] + 1 ELSE o[3]>> :
                    o \in Occurrences(attrs)}
                 \cup {<<normalize_str(key), value, p>>}
            /\ SumLens(r.bag) = SumLens(attrs) + 1
            /\ Attributes_len(r.bag) = n + 1
            /\ index = Some(0 - 1) =>
                 /\ <<normalize_str(key), value, n - 1>> \in Occurrences(r.bag)
                 /\ \A o \in Occurrences(attrs) :
                      o[3] = n - 1 => <<o[1], o[2], n>> \in Occurrences(r.bag)

\* an insert at a position has acted in front of an older occurrence of the
\* same key, which it moved up
InsertedInFront ==
  /\ op = Call("insert", "")
  /\ \E a \in DOMAIN attrs :
       /\ Len(attrs[a].idxs) >= 2
       /\ attrs[a].idxs[Len(attrs[a].idxs)] < attrs[a].idxs[1]

\* ---------------------------------------------------------------- C4

\* C4: insert(key, value, i) with i in 0..len followed by remove(key, i) gives
\* back the state before the insert: same members, values and positions.
InsertThenRemoveRestores ==
  \A key \in Keys, value \in Values, i \in 0..Attributes_len(attrs) :
    Attributes_remove(Attributes_insert(attrs, key, value, Some(i)).bag, key, Some(i), None)
      = [err |-> "", bag |-> attrs]

\* an insert has put a member between two older occurrences of its own key,
\* and removing it there leads back to the bag the insert started from
InsertedBetweenOwnKey ==
  /\ op = Call("insert", "")
  /\ \E key \in Keys, value \in Values, i \in 1..MaxLen :
       LET before == Attributes_remove(attrs, key, Some(i), None)
       IN /\ before.err = ""
          /\ Attributes_insert(before.bag, key, value, Some(i)).bag = attrs
          /\ \E o1, o2 \in Occurrences(before.bag) :
               /\ o1[1] = normalize_str(key) /\ o2[1] = normalize_str(key)
               /\ o1[3] < i /\ o2[3] >= i

\* ---------------------------------------------------------------- C5

\* C5: reading by key is case-insensitive and gives the values of the valued
\* occurrences of the key in position order (the single value when there is
\* one), also after inserts at arbitrary positions.
GetByKeyInPositionOrder ==
  \A key \in Keys :
    LET got == Attributes_getitem_str(attrs, key)
    IN got.err = "" =>
         /\ got.values = ValuesByPosition(attrs, key)
         /\ got.many = (Len(ValuesByPosition(attrs, key)) > 1)
         /\ got = Attributes_getitem_str(attrs, normalize_str(key))

\* ---------------------------------------------------------------- C6

\* C6: header[key] = value, on any header, leaves exactly one occurrence of
\* key, as the last member, with Header.get(key) giving str(value); the members
\* with other keys keep their relative order.  This holds whether key was
\* absent, a valued attribute or only a bare adjective.
SetReplacesAndAppends ==
  [][\A key \in HKeys, value \in SetValues :
       (DenseIndex /\ SetStep(key, value))
         => /\ op'.err = ""
            /\ OccurrencesOf(attrs', key) =
                 {<<normalize_str(key), Some(py_str(value)), Attributes_len(attrs') - 1>>}
            /\ Header_get(attrs', key) =
                 [err |-> "", none |-> FALSE, many |-> FALSE, values |-> <<py_str(value)>>]
            /\ OthersInOrder(attrs', key) = OthersInOrder(attrs, key)]_vars

\* ---------------------------------------------------------------- C7

\* C7: del header[key] raises KeyError and changes nothing unless key has a
\* valued occurrence; otherwise it removes exactly the valued occurrences of
\* key, keeps the bare adjectives of that name, and the content then lists the
\* remaining members in their prior order.
DelRemovesValuedOnly ==
  [][\A key \in HKeys :
       (DenseIndex /\ DelStep(key))
         => LET valued == {o \in OccurrencesOf(attrs, key) : o[2] # None}
            IN IF valued = {}
               THEN op'.err = "KeyError" /\ UNCHANGED <<attrs, content, members>>
               ELSE /\ op'.err = ""
                    /\ Occurrences(attrs') = Without(attrs, valued)
                    /\ SumLens(attrs') = SumLens(attrs) - Cardinality(valued)
                    /\ content' = Attributes_str(attrs').str]_vars

\* ---------------------------------------------------------------- C8

\* C8: header -= s raises ValueError and changes nothing when s is not
\* contained in the header; when s is contained it completes without error,
\* removes only the bare adjectives named s and leaves every valued attribute,
\* also one of the same name, unchanged and in order.
IsubRemovesBareOnly ==
  [][\A s \in HKeys :
       (DenseIndex /\ IsubStep(s))
         => LET bare == {o \in OccurrencesOf(attrs, s) : o[2] = None}
            IN IF Header_contains(attrs, s) = Some(TRUE)
               THEN /\ op'.err = ""
                    /\ Occurrences(attrs') = Without(attrs, bare)
                    /\ SumLens(attrs') = SumLens(attrs) - Cardinality(bare)
               ELSE op'.err = "ValueError" /\ UNCHANGED <<attrs, content, members>>]_vars

\* ---------------------------------------------------------------- C9

\* C9: after every mutating call on a Header that completed, the content is the
\* serialization of the Attributes, and tokenizing that content on ';' gives
\* an Attributes with the same members, values and positions.
ContentMatchesAttributes ==
  (op.name # "init" /\ op.err = "")
    => /\ Attributes_str(attrs) = [err |-> "", str |-> content]
       /\ Occurrences(Attributes_init(header_content_split(content, ";")))
            = Occurrences(attrs)

\* ---------------------------------------------------------------- C10

\* C10: a mutating call on a Header either completes and leaves the positions
\* dense, or raises with the members, positions and content exactly as they
\* were before the call.
NoPartialFailure ==
  [][DenseIndex =>
       /\ op'.err = "" => DenseIndex'
       /\ op'.err # "" => UNCHANGED <<attrs, content, members>>]_vars

\* ---------------------------------------------------------------- C11

\* C11: remove called with both a position and with_value raises ValueError
\* and leaves the index unchanged, for every key and every state of the index.
RemoveRejectsBothArguments ==
  [][\A key \in Keys, with_value \in {Some(TRUE), Some(FALSE)} :
       RemoveStep(key, Some(0), with_value)
         => op'.err = "ValueError" /\ attrs' = attrs]_vars

\* ---------------------------------------------------------------- C12

\* how many occurrences of (normalized key, value) a bag holds
PairCount(bag, key, value) ==
  Cardinality({o \in Occurrences(bag) : o[1] = key /\ o[2] = value})

\* two bags hold the same multiset of (normalized key, value)
SameMultiset(a, b) ==
  \A o \in Occurrences(a) \cup Occurrences(b) :
    PairCount(a, o[1], o[2]) = PairCount(b, o[1], o[2])

\* C12: two Attributes compare equal exactly when they hold the same multiset
\* of (normalized key, value) pairs, whatever the order: keys without case,
\* values by exact string, each pair as often on one side as on the other.
EqualIffSameMultiset ==
  \A tokens \in SeqsUpTo(Tokens, MaxTokens) :
    LET other == Attributes_init(tokens)
        r == Attributes_eq(attrs, other)
    IN r.err = "" => (r.eq <=> SameMultiset(attrs, other))

\* ---------------------------------------------------------------- C13

\* the strings a Header is compared with
EqStrings == {<<"A">>, <<"b">>, <<"a", "=", "1">>}

\* C13: a Header equals a string exactly when the string is the unquoted
\* content of the header or names one of its bare members.
EqualsStringIffContentOrAdjective ==
  \A s \in EqStrings :
    LET r == Header_eq_str(Hdr, s)
    IN r.err = "" =>
         (r.eq <=> \/ s = Header_content(Hdr).str
                   \/ \E o \in OccurrencesOf(attrs, s) : o[2] = None)

\* ---------------------------------------------------------------- C19

\* a name Header(...) has to refuse: empty, or holding a control character, a
\* delimiter, a quote, a backslash, whitespace or a non-ASCII character
RefusedName(n) ==
  \/ n = <<>>
  \/ \E i \in DOMAIN n :
       \/ Ord(n[i]) < 32 \/ Ord(n[i]) = 127
       \/ n[i] \in {":", ";", "(", ")", ",", "<", ">", "=", "@", "?", "[", "]"}
       \/ n[i] \in {"\"", "'"}
       \/ n[i] = "\\"
       \/ n[i] \in {" ", "\t", "\n", "\r"}
       \/ Ord(n[i]) > 127

\* C19: Header(name, content) raises ValueError and builds no header when the
\* name is empty or holds a control character, a delimiter, a quote, a
\* backslash, whitespace or a non-ASCII character.
IllegalNameRejected ==
  op = Call("new", "") => ~RefusedName(hname)

\* ---------------------------------------------------------------- C20

\* position i of string lies inside a double-quoted span, where a quote that
\* follows a backslash inside the span does not close it
RECURSIVE InsideQuotes(_, _)
InsideQuotes(string, i) ==
  IF i <= 1 THEN FALSE
  ELSE LET before == InsideQuotes(string, i - 1)
       IN IF string[i - 1] # "\"" THEN before
          ELSE IF ~before THEN TRUE
          ELSE i > 2 /\ string[i - 2] = "\\"

\* where a string without blanks was split, given the parts
SplitPoints(parts) ==
  {Len(Concat(SubSeq(parts, 1, k))) + k : k \in 1..(Len(parts) - 1)}

\* C20: header_content_split never splits at a delimiter inside a
\* double-quoted span; a quote escaped by a backslash does not close the span.
NoSplitInsideQuotes ==
  op = Call("new", "")
    => \A p \in SplitPoints(members) : ~InsideQuotes(content, p)

\* ---------------------------------------------------------------- C14

\* two headers with the same name, without case, and the same attributes
SameHeader(a, b) ==
  /\ normalize_str(a.hname) = normalize_str(b.hname)
  /\ SameMultiset(a.attrs, b.attrs)

\* how many headers of a list of headers are the same as h
HeaderCount(view, h) ==
  Cardinality({i \in DOMAIN view : SameHeader(view[i], h)})

\* two lists of headers hold the same multiset of headers
SameHeaders(v, w) ==
  /\ Len(v) = Len(w)
  /\ \A i \in DOMAIN v : HeaderCount(v, v[i]) = HeaderCount(w, v[i])

\* C14: two Headers compare equal exactly when they have the same length and
\* hold the same multiset of headers, whatever the order.
HeadersEqualIffSameHeaders ==
  \A hs \in SeqsUpTo(HsNames \X HsContents, MaxHeaders) :
    LET other == [i \in DOMAIN hs |-> Obj(Header_new(hs[i][1], hs[i][2]))]
    IN Headers_eq(heap, headers, other, [i \in DOMAIN hs |-> i])
         <=> SameHeaders(Deref(heap, headers), other)

\* ---------------------------------------------------------------- C15

\* C15: headers + header, headers - x, header + str, header - str and deepcopy
\* return an independent object: they leave the left operand as it was, and no
\* later change of the result changes it either.
LeftOperandUnchanged ==
  [][Deref(heap', headers') = Deref(heap, headers)]_vars

\* a header of a Headers returned by an operator was added a member, and the
\* header it was copied from is without it
ResultChangedAlone ==
  /\ op = Call("res_iadd", "")
  /\ result.kind = "Headers"
  /\ \E i \in DOMAIN headers :
       /\ i \in DOMAIN result.ids
       /\ result.ids[i] # headers[i]
       /\ heap[result.ids[i]].hname = heap[headers[i]].hname
       /\ Len(heap[result.ids[i]].members) = Len(heap[headers[i]].members) + 1

\* ---------------------------------------------------------------- C16

\* the list without the headers named like key
Unnamed(hp, list, key) ==
  SelectSeq(list, LAMBDA id : normalize_str(hp[id].hname) # normalize_str(key))

\* C16: del headers[name], headers -= name and headers.pop(name) remove every
\* header of that name, without case, and no other; headers -= header removes
\* exactly one header equal to it; the remaining headers keep their order.
RemovalByNameOrInstance ==
  [][/\ \A key \in HsKeys :
          ((HsDelStep(key) \/ HsIsubStrStep(key) \/ HsPopStep(key)) /\ op'.err = "")
            => headers' = Unnamed(heap, headers, key)
     /\ \A n \in OperandNames, c \in OperandContents :
          HsIsubHeaderStep(n, c)
            => LET same == {i \in DOMAIN headers :
                              SameHeader(heap[headers[i]], Obj(Header_new(n, c)))}
               IN IF same = {} THEN headers' = headers
                  ELSE \E i \in same : headers' = RemoveAt(headers, i)]_vars

\* ---------------------------------------------------------------- C17

\* the lines of one group of same-named headers: one line when the name is
\* squashed and the group has several headers, one line per header otherwise
GroupLines(group) ==
  IF Len(group) > 1 /\ Squashed(group[1].hname)
  THEN <<group[1].hname \o <<":", " ">>
           \o JoinWith(<<",", " ">>, [i \in DOMAIN group |-> Header_content(group[i]).str])>>
  ELSE [i \in DOMAIN group |-> Header_repr(group[i])]

\* every header once, grouped by name in first-seen order
LinesByName(view) ==
  LET names == Distinct([i \in DOMAIN view |-> normalize_str(view[i].hname)], <<>>)
  IN Concat([k \in DOMAIN names |->
               GroupLines(SelectSeq(view, LAMBDA h : normalize_str(h.hname) = names[k]))])

\* C17: the rendering of a Headers holds every header exactly once, grouped by
\* name in first-seen order, the lines joined by CRLF without a trailing blank
\* line; same-named headers are on separate lines unless their type is
\* squashed, and then joined by ', ' on one line.
ReprEmitsEachHeaderOnce ==
  Headers_repr(heap, headers) = JoinWith(<<"\r", "\n">>, LinesByName(Deref(heap, headers)))

\* ---------------------------------------------------------------- C18

\* the positions of the commas of a string that are outside double quotes
TopCommas(string) ==
  {i \in DOMAIN string :
     /\ string[i] = ","
     /\ Cardinality({j \in 1..(i - 1) : string[j] = "\""}) % 2 = 0}

\* the entries of a string between its top-level commas, without outer blanks
TopLevelEntries(string) ==
  LET cuts == <<0>> \o Ascending(TopCommas(string)) \o <<Len(string) + 1>>
  IN [k \in 1..(Len(cuts) - 1) |-> Strip(SubSeq(string, cuts[k] + 1, cuts[k + 1] - 1))]

\* the contents headers[key] = value has to build headers from
ContentsToSet(key, value) ==
  IF normalize_str(key) = <<"s", "u", "b", "j", "e", "c", "t">> \/ TopCommas(value) = {}
  THEN <<value>> ELSE TopLevelEntries(value)

\* C18: headers[name] = value removes every header named name, without case,
\* and appends one Header per top-level comma-separated entry of value, a single
\* Header when value has no top-level comma or name is Subject; a value that
\* is no str raises TypeError and changes nothing.
SetitemReplacesNamed ==
  \A key \in HsSetKeys, value \in HsSetValues :
    LET r == Headers_setitem(heap, headers, key, value)
        new == ContentsToSet(key, value.s)
    IN IF ~value.isstr
       THEN r = [err |-> "TypeError", heap |-> heap, list |-> headers]
       ELSE /\ r.err = ""
            /\ SubSeq(r.heap, 1, Len(heap)) = heap
            /\ SubSeq(r.list, 1, Len(r.list) - Len(new)) = Unnamed(heap, headers, key)
            /\ SubSeq(Deref(r.heap, r.list), Len(r.list) - Len(new) + 1, Len(r.list))
                 = [i \in DOMAIN new |-> Obj(Header_new(key, new[i]))]

\* an assignment of a value with two entries has replaced a header of that
\* name, spelled in another case, and kept a header of another name
SetSplitValueOverNamed ==
  /\ op = Call("hs_setitem", "")
  /\ Len(headers) = 3 /\ Len(heap) = 4
  /\ headers[2] = 3 /\ headers[3] = 4
  /\ heap[3].hname = heap[4].hname /\ heap[3].content # heap[4].content
  /\ \E id \in 1..2 :
       /\ id # headers[1]
       /\ heap[id].hname # heap[3].hname
       /\ normalize_str(heap[id].hname) = normalize_str(heap[3].hname)

\* ---------------------------------------------------------------- C21

\* a content without quotes, parentheses and '=': only the weekday rule can
\* keep a delimiter from separating
Plain(string) ==
  \A i \in DOMAIN string : string[i] \notin {"\"", "(", ")", "="}

\* the three characters before position i are a weekday abbreviation
AfterWeekday(string, i) ==
  i > 3 /\ SubSeq(string, i - 3, i - 1) \in Weekdays

\* C21: the weekday exception keeps a ',' that follows Mon .. Sun from
\* separating when the delimiter is ','; a ';' or a space that is the delimiter
\* separates also after a weekday abbreviation.
WeekdayRuleForCommaOnly ==
  \A delimiter \in Delimiters :
    (op = Call(SplitCall(delimiter), "") /\ Plain(content))
      => Len(members) = 1 + Cardinality({i \in DOMAIN content :
                                           /\ content[i] = delimiter
                                           /\ ~(delimiter = "," /\ AfterWeekday(content, i))})

\* ---------------------------------------------------------------- C26

\* a content without quotes, parentheses and weekday abbreviations
NoQuoteNoDay(string) ==
  \A i \in DOMAIN string : string[i] \notin {"\"", "(", ")", "M"}

\* position i is inside a value: the nearest '=' or ';' before it is a '='
InValue(string, i) ==
  \E j \in 1..(i - 1) :
    /\ string[j] = "="
    /\ \A k \in (j + 1)..(i - 1) : string[k] # ";"

\* C26: in the value state, entered at a bare '=', a ',' or a space that is the
\* delimiter does not separate; a ';' closes the value state and separates
\* whenever it is the delimiter.
ValueHoldsDelimiter ==
  \A delimiter \in Delimiters :
    (op = Call(SplitCall(delimiter), "") /\ NoQuoteNoDay(content))
      => Len(members) = 1 + Cardinality({i \in DOMAIN content :
                                           /\ content[i] = delimiter
                                           /\ (delimiter = ";" \/ ~InValue(content, i))})

\* ---------------------------------------------------------------- C22

\* the parts of a string between its ';' characters
Segments(string) ==
  LET cuts == <<0>> \o Ascending({i \in DOMAIN string : string[i] = ";"})
                \o <<Len(string) + 1>>
  IN [k \in 1..(Len(cuts) - 1) |-> SubSeq(string, cuts[k] + 1, cuts[k + 1] - 1)]

\* a content up to whitespace and quoting: its non-empty members without
\* blanks, double quotes and backslashes
Canonical(string) ==
  SelectSeq(Segments(SelectSeq(string, LAMBDA c : c \notin {" ", "\"", "\\"})),
            LAMBDA part : part # <<>>)

\* C22: for a content without the weekday exception, the serialization of
\* Attributes(header_content_split(content, ';')) is the content up to whitespace
\* and quoting, and parsing the serialization gives the same index again.
ParseAfterSerializeIsIdentity ==
  (op = Call("Attributes", "") /\ \A i \in DOMAIN content : content[i] # "M")
    => LET s == Attributes_str(attrs)
       IN /\ s.err = ""
          /\ Canonical(s.str) = Canonical(content)
          /\ Attributes_init(header_content_split(s.str, ";")) = attrs

\* ---------------------------------------------------------------- C23

\* the members Attributes(...) reads: the empty ones are passed over
Written(strings) ==
  SelectSeq(strings, LAMBDA m : m # <<>>)

\* a member that is an adjective: no '=', or nothing but '=' after its first
\* '=', or a space before it
AdjectiveLike(m) ==
  LET e == IndexOf(m, "=")
  IN \/ e = 0
     \/ \A k \in (e + 1)..Len(m) : m[k] = "="
     \/ \E k \in 1..(e - 1) : m[k] = " "

\* the index holds at position p - 1 what the p-th member is classified as;
\* named(m) is the name an adjective that has a '=' is given
ClassifiedAs(bag, m, p, named(_)) ==
  LET kv == Attributes_getitem_int(bag, p - 1)
  IN /\ kv # None
     /\ IF AdjectiveLike(m)
        THEN /\ kv[1].value = None
             /\ IndexOf(m, "=") # 0 => normalize_str(kv[1].key) = normalize_str(named(m))
        ELSE /\ kv[1].value # None
             /\ normalize_str(kv[1].key) = normalize_str(SubSeq(m, 1, IndexOf(m, "=") - 1))

\* the member as it is
Whole(m) ==
  m

\* C23 as stated: a member whose text after the first '=' is empty or all '=',
\* or whose text before it has a space, is an adjective named by the whole
\* member; every other member with a '=' is an attribute split at its first
\* '='; a member without '=' is an adjective.
ClassifiedWholeMember ==
  op = Call("Attributes", "")
    => \A p \in DOMAIN Written(members) :
         ClassifiedAs(attrs, Written(members)[p], p, Whole)

\* C23 amended: the adjective is named by the member without the pair of
\* quotes around it, and the empty members are passed over.
ClassifiedUnquotedMember ==
  op = Call("Attributes", "")
    => /\ Attributes_len(attrs) = Len(Written(members))
       /\ \A p \in DOMAIN Written(members) :
            ClassifiedAs(attrs, Written(members)[p], p, unquote)

\* an index built from one quoted member that has a space before its '=': the
\* member is an adjective, named without the quotes
QuotedAdjectiveParsed ==
  /\ op = Call("Attributes", "")
  /\ Len(members) = 1
  /\ IndexOf(members[1], "=") > 1
  /\ AdjectiveLike(members[1])
  /\ unquote(members[1]) # members[1]
  /\ Attributes_len(attrs) = 1

\* ---------------------------------------------------------------- C24

\* the name of a member as it is written
NameOf(m) ==
  IF AdjectiveLike(m) THEN unquote(m) ELSE SubSeq(m, 1, IndexOf(m, "=") - 1)

RECURSIVE FirstSpellings(_, _)
\* the names of a list that differ by more than case and '-' or '_', each as
\* it is spelled first
FirstSpellings(names, seen) ==
  IF names = <<>> THEN seen
  ELSE FirstSpellings(Tail(names),
                      IF \E i \in DOMAIN seen : normalize_str(seen[i]) = normalize_str(Head(names))
                      THEN seen ELSE Append(seen, Head(names)))

\* C24: attrs of a header lists the names of its members in position order,
\* each spelled as the content spells it, and valued_attrs lists the distinct
\* names that have a value in first-seen order, spelled as written; also when
\* two names differ by letter case only.
AttrsKeepOriginalCase ==
  calls = 0
    => LET written == Written(members)
           valued == SelectSeq(written, LAMBDA m : ~AdjectiveLike(m))
       IN /\ Header_attrs(attrs) = Some([p \in DOMAIN written |-> NameOf(written[p])])
          /\ Header_valued_attrs(attrs)
               = Some(FirstSpellings([p \in DOMAIN valued |-> NameOf(valued[p])], <<>>))

\* ---------------------------------------------------------------- C27

\* the index holds the items at consecutive positions, in their order
HeldInOrder(bag, items) ==
  \E start \in 0..Attributes_len(bag) :
    \A k \in DOMAIN items :
      LET kv == Attributes_getitem_int(bag, start + k - 1)
      IN /\ kv # None
         /\ normalize_str(kv[1].key) = normalize_str(items[k].key)
         /\ kv[1].value = items[k].value

\* C27: insert on a header accepts any integer index, also one beyond the
\* number of members and a negative one on an empty header: it completes, the
\* positions stay without a gap, str and attrs of the header can be evaluated,
\* and the inserted members are next to each other in the order given.
InsertAcceptsAnyIndex ==
  [][\A index \in (0 - 1)..(MaxLen + 1), items \in InsertItems :
       (DenseIndex /\ HInsertStep(index, items))
         => /\ op'.err = ""
            /\ DenseIndex'
            /\ Attributes_str(attrs').err = ""
            /\ Header_attrs(attrs') # None
            /\ HeldInOrder(attrs', items)]_vars

\* ---------------------------------------------------------------- C28

\* C28: after any sequence of changes of a header, its member list is the
\* current content split on ';' and has as many entries as the header has
\* members, so that header[i] is the i-th member of the content; stated for a
\* header with a content, after a call that returned, the empty entries of the
\* list not counted.
MembersFollowContent ==
  (op.err = "" /\ content # <<>>)
    => /\ members = header_content_split(content, ";")
       /\ Len(Written(members)) = Attributes_len(attrs)

\* ---------------------------------------------------------------- C29

\* C29: the deep copy of a header has the name of the header and renders as
\* the header does, for str and for repr, also when the content of the header
\* is one member in quotes.
DeepcopyRendersAlike ==
  op = Call("new", "")
    => LET h == [hname |-> hname, attrs |-> attrs, content |-> content,
                 members |-> members]
           copy == Header_deepcopy(h)
       IN /\ copy.hname = hname
          /\ copy.content = content
          /\ Header_repr(copy) = Header_repr(h)

\* ---------------------------------------------------------------- C30

\* C30: equality is symmetric: a == b and b == a agree for all Attributes, and
\* x == y and y == x agree for all Headers.
EqualityIsSymmetric ==
  /\ \A i, j \in DOMAIN heap :
       Attributes_eq(heap[i].attrs, heap[j].attrs).eq
         = Attributes_eq(heap[j].attrs, heap[i].attrs).eq
  /\ \A hs \in SeqsUpTo(HsNames \X HsContents, MaxHeaders) :
       LET other == [i \in DOMAIN hs |-> Obj(Header_new(hs[i][1], hs[i][2]))]
           ids == [i \in DOMAIN hs |-> i]
       IN Headers_eq(heap, headers, other, ids) = Headers_eq(other, ids, heap, headers)

\* ---------------------------------------------------------------- C25

\* C25: decode(encode(headers)) completes and gives a Headers equal to
\* headers, also for a header with several values of one attribute, with a name
\* that is both an adjective and an attribute, or with an adjective of several
\* words one of which names an attribute.
DecodeEncodeGivesEqual ==
  op.name = "decode"
    => /\ op.err = ""
       /\ Headers_eq(heap, result.ids, heap, headers)
       /\ Headers_eq(heap, headers, heap, result.ids)

====
